---- MODULE Spec2Model ----
(***************************************************************************)
(* Output-field registry of SU2 (output_fields.hpp): COutFieldCollection   *)
(* and HistoryOutFieldCollection.                                          *)
(*                                                                         *)
(* A field reference (a map iterator in the C++) is the 1-based position   *)
(* of the field in insertionVector; C++ index i is position i + 1.         *)
(***************************************************************************)
EXTENDS Integers, Sequences, FiniteSets, TLC

(* ---- bounds ---- *)
MaxFields == 2
MaxKeys == 2
MaxValue == 1

(* ---- value domains ---- *)
NameOrder == <<"a", "b", "c">>
Names == {NameOrder[n] : n \in 1..Len(NameOrder)}
Groups == {"a", "g"}
ScopeKeys == Names
ExprNames == {NameOrder[1], NameOrder[2]}
QueryKeys == Names \cup Groups
Values == 0..MaxValue

CUSTOM == "CUSTOM"
FieldType == {"RESIDUAL", "AUTO_RESIDUAL", "COEFFICIENT", "AUTO_COEFFICIENT", CUSTOM, "DEFAULT"}
RegisteredTypes == {"COEFFICIENT", CUSTOM}
RequestedTypes == {"COEFFICIENT", CUSTOM, "DEFAULT"}
ScreenOutputFormat == {"INTEGER", "FIXED", "SCIENTIFIC", "PERCENT"}
NoExpr == ""

VARIABLES insertionVector, outFieldScope, pc, customFields, idx, last

vars == <<insertionVector, outFieldScope, pc, customFields, idx, last>>

(* ---- helpers on sequences ---- *)
SeqsUpTo(S, n) == UNION {[1..k -> S] : k \in 0..n}

Positions(vec) == [i \in 1..Len(vec) |-> i]

NoCall == [op |-> "none"]

(* ---- field record ---- *)
(* description has no effect on any operation and is left out; expParser   *)
(* is the name the field's expression reads, NoExpr when it has none.      *)
HistoryOutputField(fieldName_, screenFormat_, OutputGroup_, fieldType_) ==
  [fieldName |-> fieldName_, outputGroup |-> OutputGroup_, fieldType |-> fieldType_,
   expParser |-> NoExpr, value |-> 0, screenFormat |-> screenFormat_]

(* ---- generic reference query of the indexed map ---- *)
(* The predicate is handed over as the set find of the <<key, reference>>   *)
(* pairs it accepts. For every candidate of refVector, in order, one        *)
(* reference per requested key it matches; notFound keeps the requested     *)
(* keys that matched nothing.                                               *)
MatchesOf(keyList, ref, find) ==
  LET M[k \in 0..Len(keyList)] ==
        IF k = 0 THEN <<>>
        ELSE IF <<keyList[k], ref>> \in find THEN Append(M[k - 1], ref) ELSE M[k - 1]
  IN M[Len(keyList)]

GetReferences(keyList, refVector, find) ==
  LET R[n \in 0..Len(refVector)] ==
        IF n = 0 THEN <<>>
        ELSE R[n - 1] \o MatchesOf(keyList, refVector[n], find)
      Found(key) == \E n \in 1..Len(refVector) : <<key, refVector[n]>> \in find
  IN [refs |-> R[Len(refVector)],
      notFound |-> SelectSeq(keyList, LAMBDA key : ~Found(key))]

(* the pairs of requested key and candidate that a predicate accepts *)
Pairs(keyList, refVector) ==
  {keyList[k] : k \in 1..Len(keyList)} \X {refVector[n] : n \in 1..Len(refVector)}

(* ---- predicates of COutFieldCollection ---- *)
(* mutant: the comparison inverted *)
findFieldWithType_Inverted(vec, type, mapIndex) == vec[mapIndex].fieldType # type

findFieldWithType(vec, type, mapIndex) == vec[mapIndex].fieldType = type

(* mutant: the group is compared whether or not group search was asked for *)
findFieldWithName_AlwaysGroup(vec, searchGroup, key, mapIndex) ==
  \/ key = vec[mapIndex].fieldName
  \/ key = vec[mapIndex].outputGroup

(* mutant: the group is never compared *)
findFieldWithName_NameOnly(vec, searchGroup, key, mapIndex) ==
  key = vec[mapIndex].fieldName

findFieldWithName(vec, searchGroup, key, mapIndex) ==
  \/ key = vec[mapIndex].fieldName
  \/ (searchGroup /\ key = vec[mapIndex].outputGroup)

(* ---- queries ---- *)
GetFieldsByKeyStatic(vec, fieldKey, refVector, searchGroup) ==
  GetReferences(fieldKey, refVector,
                {pr \in Pairs(fieldKey, refVector) :
                   findFieldWithName(vec, searchGroup, pr[1], pr[2])})

(* mutant: the candidates are handed over key by key, so the result follows *)
(* the order of the requested keys                                          *)
GetFieldsByKey_KeyOrder(vec, fieldKey, searchGroup) ==
  LET one(k) == GetFieldsByKeyStatic(vec, <<fieldKey[k]>>, Positions(vec), searchGroup)
      R[k \in 0..Len(fieldKey)] ==
        IF k = 0 THEN [refs |-> <<>>, notFound |-> <<>>]
        ELSE [refs |-> R[k - 1].refs \o one(k).refs,
              notFound |-> R[k - 1].notFound \o one(k).notFound]
  IN R[Len(fieldKey)]

GetFieldsByKey(vec, fieldKey, searchGroup) ==
  GetReferences(fieldKey, Positions(vec),
                {pr \in Pairs(fieldKey, Positions(vec)) :
                   findFieldWithName(vec, searchGroup, pr[1], pr[2])})

GetFieldsByType(vec, type) ==
  GetReferences(type, Positions(vec),
                {pr \in Pairs(type, Positions(vec)) : findFieldWithType(vec, pr[1], pr[2])})

(* ---- evaluation environment ---- *)
Put(scope, key, value) ==
  [k \in DOMAIN scope \cup {key} |-> IF k = key THEN value ELSE scope[k]]

(* mutant: every field is published, whatever its type *)
PublishField_AnyType(scope, field) == Put(scope, field.fieldName, field.value)

(* mutant: an entry already in the environment is kept, not overwritten *)
PublishField_NoOverwrite(scope, field) ==
  IF field.fieldType # CUSTOM /\ field.fieldName \notin DOMAIN scope
    THEN Put(scope, field.fieldName, field.value)
    ELSE scope

PublishField(scope, field) ==
  IF field.fieldType # CUSTOM THEN Put(scope, field.fieldName, field.value) ELSE scope

(* mutant: the emptiness test left out *)
HasCustom_Always(fields) == TRUE

HasCustom(fields) == fields # <<>>

(* mutant: the loop stops one element early *)
LoopDone_Early(i, vec) == i >= Len(vec)

LoopDone(i, vec) == i > Len(vec)

(* ---- expression engine ---- *)
CanEval(scope, expr) == expr \in DOMAIN scope

Eval(scope, expr) == (scope[expr] + 1) % (MaxValue + 1)

(* mutant: the element after the addressed one is written, when there is one *)
SetValue_OffByOne(vec, pos, value) ==
  [vec EXCEPT ![IF pos < Len(vec) THEN pos + 1 ELSE pos].value = value]

SetValue(vec, pos, value) == [vec EXCEPT ![pos].value = value]

(* ---- state ---- *)
Init ==
  /\ insertionVector = <<>>
  /\ outFieldScope = <<>>
  /\ pc = "idle"
  /\ customFields = <<>>
  /\ idx = 0
  /\ last = NoCall

FieldNames(vec) == {vec[i].fieldName : i \in 1..Len(vec)}

AddItem(name, group, type, expr) ==
  /\ pc = "idle"
  /\ Len(insertionVector) < MaxFields
  /\ name \notin FieldNames(insertionVector)
  /\ insertionVector' =
       Append(insertionVector,
              [HistoryOutputField(name, "FIXED", group, type) EXCEPT !.expParser = expr])
  /\ last' = [op |-> "AddItem"]
  /\ UNCHANGED <<outFieldScope, pc, customFields, idx>>

SetValueByIndex(i, value) ==
  /\ pc = "idle"
  /\ i \in 0..(Len(insertionVector) - 1)
  /\ insertionVector' = SetValue(insertionVector, i + 1, value)
  /\ last' = [op |-> "SetValueByIndex"]
  /\ UNCHANGED <<outFieldScope, pc, customFields, idx>>

SetValueByKey(key, value) ==
  /\ pc = "idle"
  /\ key \in FieldNames(insertionVector)
  /\ LET pos == CHOOSE p \in 1..Len(insertionVector) : insertionVector[p].fieldName = key
     IN insertionVector' = SetValue(insertionVector, pos, value)
  /\ last' = [op |-> "SetValueByKey"]
  /\ UNCHANGED <<outFieldScope, pc, customFields, idx>>

ScopeWrite(key, value) ==
  /\ pc = "idle"
  /\ outFieldScope' = Put(outFieldScope, key, value)
  /\ last' = [op |-> "ScopeWrite"]
  /\ UNCHANGED <<insertionVector, pc, customFields, idx>>

(* ---- UpdateTokens: the call with its test, then one step per loop pass ---- *)
UpdateTokens_Call ==
  /\ pc = "idle"
  /\ LET fields == GetFieldsByType(insertionVector, <<CUSTOM>>).refs
     IN IF HasCustom(fields)
          THEN customFields' = fields /\ pc' = "publish" /\ idx' = 1
          ELSE customFields' = <<>> /\ pc' = "idle" /\ idx' = 0
  /\ last' = [op |-> "UpdateTokens"]
  /\ UNCHANGED <<insertionVector, outFieldScope>>

UpdateTokens_Publish ==
  /\ pc = "publish"
  /\ IF LoopDone(idx, insertionVector)
       THEN pc' = "exec" /\ idx' = 1 /\ UNCHANGED outFieldScope
       ELSE /\ outFieldScope' = PublishField(outFieldScope, insertionVector[idx])
            /\ idx' = idx + 1
            /\ UNCHANGED pc
  /\ UNCHANGED <<insertionVector, customFields, last>>

UpdateTokens_Exec ==
  /\ pc = "exec"
  /\ IF LoopDone(idx, customFields)
       THEN pc' = "idle" /\ idx' = 0 /\ customFields' = <<>> /\ UNCHANGED insertionVector
       ELSE LET pos == customFields[idx]
                expr == insertionVector[pos].expParser
            IN IF CanEval(outFieldScope, expr)
                 THEN /\ insertionVector' = SetValue(insertionVector, pos, Eval(outFieldScope, expr))
                      /\ idx' = idx + 1
                      /\ UNCHANGED <<pc, customFields>>
                 ELSE /\ pc' = "error"
                      /\ UNCHANGED <<insertionVector, idx, customFields>>
  /\ UNCHANGED <<outFieldScope, last>>

(* ---- queries as operations: the result is held until the caller drops it ---- *)
QueryByKey(fieldKey, searchGroup) ==
  /\ pc = "idle"
  /\ LET r == GetFieldsByKey(insertionVector, fieldKey, searchGroup)
     IN last' = [op |-> "byKey", fieldKey |-> fieldKey, searchGroup |-> searchGroup,
                refs |-> r.refs, notFound |-> r.notFound]
  /\ pc' = "returned"
  /\ UNCHANGED <<insertionVector, outFieldScope, customFields, idx>>

QueryByKeyStatic(fieldKey, type, searchGroup) ==
  /\ pc = "idle"
  /\ LET refVector == GetFieldsByType(insertionVector, type).refs
         r == GetFieldsByKeyStatic(insertionVector, fieldKey, refVector, searchGroup)
     IN last' = [op |-> "byKeyStatic", fieldKey |-> fieldKey, searchGroup |-> searchGroup,
                refVector |-> refVector, refs |-> r.refs, notFound |-> r.notFound]
  /\ pc' = "returned"
  /\ UNCHANGED <<insertionVector, outFieldScope, customFields, idx>>

QueryByType(type) ==
  /\ pc = "idle"
  /\ LET r == GetFieldsByType(insertionVector, type)
     IN last' = [op |-> "byType", type |-> type, refs |-> r.refs, notFound |-> r.notFound]
  /\ pc' = "returned"
  /\ UNCHANGED <<insertionVector, outFieldScope, customFields, idx>>

Return ==
  /\ pc = "returned"
  /\ pc' = "idle"
  /\ last' = NoCall
  /\ UNCHANGED <<insertionVector, outFieldScope, customFields, idx>>

(* Registration for the evaluation protocol: names are taken in NameOrder    *)
(* (field names are interchangeable labels there) and the group is fixed.   *)
RegisterNext ==
  /\ Len(insertionVector) < Len(NameOrder)
  /\ \E type \in RegisteredTypes :
       \E expr \in (IF type = CUSTOM THEN ExprNames ELSE {NoExpr}) :
         AddItem(NameOrder[Len(insertionVector) + 1], "g", type, expr)

(* Registration for the queries: any name order, groups that may coincide   *)
(* with a field name.                                                       *)
RegisterAny ==
  \E name \in Names, group \in Groups, type \in RegisteredTypes :
    AddItem(name, group, type, IF type = CUSTOM THEN NameOrder[1] ELSE NoExpr)

Next ==
  \/ RegisterNext
  \/ \E i \in 0..(MaxFields - 1), value \in Values : SetValueByIndex(i, value)
  \/ \E key \in Names, value \in Values : SetValueByKey(key, value)
  \/ \E key \in ScopeKeys, value \in Values : ScopeWrite(key, value)
  \/ UpdateTokens_Call
  \/ UpdateTokens_Publish
  \/ UpdateTokens_Exec

Spec == Init /\ [][Next]_vars

NextQuery ==
  \/ RegisterAny
  \/ \E fieldKey \in SeqsUpTo(QueryKeys, MaxKeys), searchGroup \in BOOLEAN :
       QueryByKey(fieldKey, searchGroup)
  \/ \E fieldKey \in SeqsUpTo(QueryKeys, MaxKeys), searchGroup \in BOOLEAN :
       \E t \in RegisteredTypes : QueryByKeyStatic(fieldKey, <<t>>, searchGroup)
  \/ \E type \in SeqsUpTo(RequestedTypes, MaxKeys) : QueryByType(type)
  \/ Return

SpecQuery == Init /\ [][NextQuery]_vars

(* ======================================================================= *)
(* Properties                                                               *)
(* ======================================================================= *)
Range(seq) == {seq[i] : i \in 1..Len(seq)}

NonDecreasing(seq) == \A i, j \in 1..Len(seq) : i < j => seq[i] <= seq[j]

NoRepeats(seq) == \A i, j \in 1..Len(seq) : i # j => seq[i] # seq[j]

IsKeyQuery == last.op \in {"byKey", "byKeyStatic"}

(* the candidate sequence the last key query scanned *)
Candidates == IF last.op = "byKeyStatic" THEN last.refVector ELSE Positions(insertionVector)

(* key matches the field at position p, as the documentation of GetFieldsByKey states it *)
KeyMatches(key, p, searchGroup) ==
  \/ insertionVector[p].fieldName = key
  \/ (searchGroup /\ insertionVector[p].outputGroup = key)

MatchPairs ==
  {<<n, k>> \in (1..Len(Candidates)) \X (1..Len(last.fieldKey)) :
     KeyMatches(last.fieldKey[k], Candidates[n], last.searchGroup)}

(* C2: for a non-empty key list, the result of GetFieldsByKey lists the     *)
(* matched fields in the collection's insertion order, whatever the order   *)
(* in which the keys were requested.                                        *)
C2_InsertionOrder ==
  (IsKeyQuery /\ last.fieldKey # <<>>) =>
    /\ NonDecreasing(last.refs)
    /\ Range(last.refs) = {Candidates[pr[1]] : pr \in MatchPairs}

(* two fields requested by name in the reverse of their insertion order *)
C2_Witness ==
  /\ last.op = "byKey"
  /\ Len(last.fieldKey) = 2
  /\ Len(insertionVector) >= 2
  /\ last.fieldKey[1] = insertionVector[2].fieldName
  /\ last.fieldKey[2] = insertionVector[1].fieldName
  /\ last.refs = <<1, 2>>

(* C4: a requested key that matches no candidate is in the not-found list   *)
(* and adds nothing to the result; a key that matches a candidate is not in *)
(* the not-found list.                                                      *)
C4_NotFound ==
  IsKeyQuery =>
    /\ \A k \in 1..Len(last.fieldKey) :
         (last.fieldKey[k] \in Range(last.notFound))
           <=> ~(\E n \in 1..Len(Candidates) :
                   KeyMatches(last.fieldKey[k], Candidates[n], last.searchGroup))
    /\ Range(last.notFound) \subseteq Range(last.fieldKey)
    /\ Len(last.refs) = Cardinality(MatchPairs)
    /\ \A r \in 1..Len(last.refs) :
         \E k \in 1..Len(last.fieldKey) :
           KeyMatches(last.fieldKey[k], last.refs[r], last.searchGroup)

(* one requested key found, one not; the missed key is a group name that is *)
(* in use while group search is off                                         *)
C4_Witness ==
  /\ last.op = "byKey"
  /\ ~last.searchGroup
  /\ Len(last.fieldKey) = 2
  /\ Len(last.refs) = 1
  /\ Len(last.notFound) = 1
  /\ \E p \in 1..Len(insertionVector) : insertionVector[p].outputGroup = last.notFound[1]

(* C5: GetFieldsByType returns exactly the fields whose category is one of  *)
(* the requested ones, in insertion order; an empty request gives an empty  *)
(* result and an empty not-found list.                                      *)
C5_ByType ==
  last.op = "byType" =>
    /\ Range(last.refs) =
         {p \in 1..Len(insertionVector) : insertionVector[p].fieldType \in Range(last.type)}
    /\ NonDecreasing(last.refs)
    /\ NoRepeats(last.type) => NoRepeats(last.refs)
    /\ last.type = <<>> => (last.refs = <<>> /\ last.notFound = <<>>)

(* a request that selects one of two registered fields *)
C5_Witness ==
  /\ last.op = "byType"
  /\ Len(insertionVector) = 2
  /\ Len(last.type) >= 1
  /\ last.refs = <<2>>

(* C7: with group search enabled, a requested key that is the group of some *)
(* field returns every field of that group, in insertion order, and only    *)
(* fields whose name or group is the key.                                   *)
C7_GroupSearch ==
  (last.op = "byKey" /\ last.searchGroup) =>
    /\ \A k \in 1..Len(last.fieldKey) : \A p \in 1..Len(insertionVector) :
         insertionVector[p].outputGroup = last.fieldKey[k] => p \in Range(last.refs)
    /\ NonDecreasing(last.refs)
    /\ Len(last.fieldKey) = 1 =>
         last.refs = SelectSeq(Positions(insertionVector),
                               LAMBDA p : \/ insertionVector[p].outputGroup = last.fieldKey[1]
                                          \/ insertionVector[p].fieldName = last.fieldKey[1])

(* one group key that is the name of no field selects both fields of the group *)
C7_Witness ==
  /\ last.op = "byKey"
  /\ last.searchGroup
  /\ Len(last.fieldKey) = 1
  /\ last.fieldKey[1] \notin FieldNames(insertionVector)
  /\ last.refs = <<1, 2>>

(* C8: group search disabled, the key list a permutation of all N field     *)
(* names: every field is returned exactly once, in insertion order.         *)
C8_RoundTrip ==
  (/\ last.op = "byKey"
   /\ ~last.searchGroup
   /\ Len(last.fieldKey) = Len(insertionVector)
   /\ Range(last.fieldKey) = FieldNames(insertionVector)) =>
    /\ last.refs = Positions(insertionVector)
    /\ last.notFound = <<>>

(* all names of a two-field collection requested last-registered first,     *)
(* the first field's name being also the second field's group               *)
C8_Witness ==
  /\ last.op = "byKey"
  /\ ~last.searchGroup
  /\ Len(insertionVector) = 2
  /\ last.fieldKey = <<insertionVector[2].fieldName, insertionVector[1].fieldName>>
  /\ insertionVector[2].outputGroup = insertionVector[1].fieldName
  /\ last.refs = <<1, 2>>

(* ---- evaluation protocol ---- *)
IsCustom(p) == insertionVector[p].fieldType = CUSTOM

NoCustomField == \A p \in 1..Len(insertionVector) : ~IsCustom(p)

(* the environment holds the current value of every non-Custom field *)
Published ==
  \A p \in 1..Len(insertionVector) :
    ~IsCustom(p) =>
      /\ insertionVector[p].fieldName \in DOMAIN outFieldScope
      /\ outFieldScope[insertionVector[p].fieldName] = insertionVector[p].value

(* a step of UpdateTokens: its call, or a pass of one of its loops *)
UpdateTokensStep ==
  \/ (pc = "idle" /\ last'.op = "UpdateTokens")
  \/ pc \in {"publish", "exec"}

(* UpdateTokens has returned from a call on a collection with a Custom field *)
AfterCycle == pc = "idle" /\ last.op = "UpdateTokens" /\ ~NoCustomField

(* C1: whenever the expression of a Custom field is about to run, the       *)
(* environment holds, under its name, the current value of every non-Custom *)
(* field of the collection.                                                 *)
C1_PublishedBeforeExec ==
  (pc = "exec" /\ idx <= Len(customFields)) => Published

(* an expression about to run with a non-Custom field that was set to a     *)
(* value other than its initial one                                         *)
C1_Witness ==
  /\ pc = "exec"
  /\ idx <= Len(customFields)
  /\ \E p \in 1..Len(insertionVector) : ~IsCustom(p) /\ insertionVector[p].value # 0

(* C3: on a collection without Custom fields a step of UpdateTokens changes *)
(* neither the environment nor any field, runs no expression, and returns.  *)
C3_NoCustomNoOp ==
  [][(NoCustomField /\ UpdateTokensStep) =>
       /\ outFieldScope' = outFieldScope
       /\ insertionVector' = insertionVector
       /\ pc' = "idle"]_vars

(* UpdateTokens returned on a collection without Custom fields, and a field *)
(* holds a value that the environment does not hold under its name          *)
C3_Witness ==
  /\ pc = "idle"
  /\ last.op = "UpdateTokens"
  /\ NoCustomField
  /\ outFieldScope # <<>>
  /\ \E p \in 1..Len(insertionVector) :
       /\ insertionVector[p].value # 0
       /\ insertionVector[p].fieldName \in DOMAIN outFieldScope
            => outFieldScope[insertionVector[p].fieldName] # insertionVector[p].value

(* C6: SetValueByIndex(i, v) with i in range sets the value of the field at *)
(* insertion position i to v; the other fields' values, every field's name, *)
(* group, type, format and expression, the size and order of the collection *)
(* and the environment stay as they were.                                   *)
C6_SetValueByIndexFrame ==
  [][last'.op = "SetValueByIndex" =>
     \A i \in 0..(Len(insertionVector) - 1), v \in Values :
       SetValueByIndex(i, v) =>
         /\ Len(insertionVector') = Len(insertionVector)
         /\ insertionVector'[i + 1].value = v
         /\ \A p \in 1..Len(insertionVector) :
              /\ insertionVector'[p].fieldName = insertionVector[p].fieldName
              /\ insertionVector'[p].outputGroup = insertionVector[p].outputGroup
              /\ insertionVector'[p].fieldType = insertionVector[p].fieldType
              /\ insertionVector'[p].expParser = insertionVector[p].expParser
              /\ insertionVector'[p].screenFormat = insertionVector[p].screenFormat
              /\ p # i + 1 => insertionVector'[p].value = insertionVector[p].value
         /\ outFieldScope' = outFieldScope]_vars

(* SetValueByIndex was the last call, on a collection of two fields that    *)
(* now hold different values, with a non-empty environment                  *)
C6_Witness ==
  /\ last.op = "SetValueByIndex"
  /\ Len(insertionVector) = 2
  /\ insertionVector[1].value # insertionVector[2].value
  /\ outFieldScope # <<>>

C10_CustomNotPublished ==
  [][UpdateTokensStep =>
       \A p \in 1..Len(insertionVector) :
         IsCustom(p) =>
           LET n == insertionVector[p].fieldName
           IN /\ (n \in DOMAIN outFieldScope') <=> (n \in DOMAIN outFieldScope)
              /\ n \in DOMAIN outFieldScope => outFieldScope'[n] = outFieldScope[n]]_vars

(* an evaluation step has given a Custom field a derived value and the      *)
(* environment has no entry under that field's name                         *)
C10_Witness ==
  /\ AfterCycle
  /\ \E p \in 1..Len(insertionVector) :
       /\ IsCustom(p)
       /\ insertionVector[p].value # 0
       /\ insertionVector[p].fieldName \notin DOMAIN outFieldScope

====
